---- MODULE Spec2Model ----
(***************************************************************************)
(* Wine-market analysis scripts: the review loader (DataProcessor), the    *)
(* purchase-trends pipeline (WineTrendsAnalyzer) and the export report on  *)
(* mock data (WineExportAnalyzer).  A dataset is a record of its column    *)
(* names and its rows; numbers are integers, quartiles and outlier fences  *)
(* are kept exactly as integers scaled by 4 and by 8.                      *)
(***************************************************************************)
EXTENDS Integers, Sequences, FiniteSets, TLC

(***************************************************************************)
(* Values                                                                  *)
(***************************************************************************)
\* a missing numeric cell (pandas NaN); modelled prices and points are >= 0
NaN == -1
\* a missing label or text cell
NoLabel == "NaN"
\* float('inf'), the open upper end of the last price bin; above every price
Inf == 1000000

None == [isNone |-> TRUE, cols |-> {}, rows |-> <<>>]
DataFrame(cols, rows) == [isNone |-> FALSE, cols |-> cols, rows |-> rows]

Row(country, points, price, variety) ==
  [country |-> country, points |-> points, price |-> price, variety |-> variety,
   price_category |-> NoLabel, rating_category |-> NoLabel]

\* the columns the delimited review file is expected to carry
ExpectedCols == {"country", "points", "price", "variety", "title"}

(***************************************************************************)
(* Sequence helpers                                                        *)
(***************************************************************************)
RECURSIVE SumSeq(_)
SumSeq(s) ==
  IF s = <<>> THEN 0
  ELSE IF Len(s) = 1 THEN s[1]
  ELSE LET h == Len(s) \div 2
       IN SumSeq(SubSeq(s, 1, h)) + SumSeq(SubSeq(s, h + 1, Len(s)))

RECURSIVE SeqsUpTo(_, _)
SeqsUpTo(S, n) ==
  IF n = 0 THEN {<<>>}
  ELSE LET shorter == SeqsUpTo(S, n - 1)
       IN shorter \cup {Append(s, x) : s \in {t \in shorter : Len(t) = n - 1}, x \in S}

\* ascending sort of a sequence of numbers, around its first element
RECURSIVE Sort(_)
Sort(s) ==
  IF Len(s) <= 1 THEN s
  ELSE LET p == s[1]
       IN Sort(SelectSeq(s, LAMBDA x : x < p)) \o SelectSeq(s, LAMBDA x : x = p)
          \o Sort(SelectSeq(s, LAMBDA x : x > p))

(***************************************************************************)
(* clean_data                                                              *)
(***************************************************************************)
\* dropna(subset=['points']): a row without a price stays
dropna_points(rows) == SelectSeq(rows, LAMBDA r : r.points # NaN)

\* DataFrame.dropna(subset=['points', 'price'])
dropna(rows) == SelectSeq(rows, LAMBDA r : r.points # NaN /\ r.price # NaN)

\* Series.quantile(k/4) with linear interpolation, times 4; xs is non-empty
quantile(xs, k) ==
  LET s  == Sort(xs)
      h  == (Len(s) - 1) * k
      lo == (h \div 4) + 1
      fr == h % 4
  IN IF fr = 0 THEN 4 * s[lo] ELSE 4 * s[lo] + fr * (s[lo + 1] - s[lo])

price_bins == <<0, 15, 30, 50, 100, Inf>>
price_labels == <<"Econômico (<$15)", "Médio ($15-30)", "Premium ($30-50)",
                  "Super Premium ($50-100)", "Ultra Premium (>$100)">>
rating_bins == <<0, 82, 87, 90, 95, 100>>
rating_labels == <<"Aceitável (80-82)", "Bom (83-87)", "Muito Bom (88-90)",
                   "Excelente (91-95)", "Excepcional (96-100)">>

\* pd.cut(x, bins, labels) with right=False: bins closed on the left
cut_left(x, bins, labels) ==
  LET hits == {i \in 1..Len(labels) : bins[i] <= x /\ x < bins[i + 1]}
  IN IF x = NaN \/ hits = {} THEN NoLabel ELSE labels[CHOOSE i \in hits : TRUE]

\* pd.cut(x, bins, labels) with the default right=True, include_lowest=False
cut(x, bins, labels) ==
  LET hits == {i \in 1..Len(labels) : bins[i] < x /\ x <= bins[i + 1]}
  IN IF x = NaN \/ hits = {} THEN NoLabel ELSE labels[CHOOSE i \in hits : TRUE]

\* the locals of clean_data when it has not run
NoClean == [ran |-> FALSE, dropped |-> <<>>, Q1 |-> 0, Q3 |-> 0, IQR |-> 0,
            lower_bound |-> 0, upper_bound |-> 0]

\* fences with the signs of the IQR margin swapped: the band shrinks inward
fences_inward(d) ==
  IF d = <<>> THEN [NoClean EXCEPT !.ran = TRUE]
  ELSE LET prices == [i \in 1..Len(d) |-> d[i].price]
           Q1  == quantile(prices, 1)
           Q3  == quantile(prices, 3)
           IQR == Q3 - Q1
       IN [ran |-> TRUE, dropped |-> d, Q1 |-> Q1, Q3 |-> Q3, IQR |-> IQR,
           lower_bound |-> 2 * Q1 + 3 * IQR, upper_bound |-> 2 * Q3 - 3 * IQR]

\* the fences of clean_data over a null-free row sequence: Q1, Q3, IQR times 4,
\* the bounds times 8 (an empty column gives NaN fences, which keep nothing)
fences(d) ==
  IF d = <<>> THEN [NoClean EXCEPT !.ran = TRUE]
  ELSE LET prices == [i \in 1..Len(d) |-> d[i].price]
           Q1  == quantile(prices, 1)
           Q3  == quantile(prices, 3)
           IQR == Q3 - Q1
       IN [ran |-> TRUE, dropped |-> d, Q1 |-> Q1, Q3 |-> Q3, IQR |-> IQR,
           lower_bound |-> 2 * Q1 - 3 * IQR, upper_bound |-> 2 * Q3 + 3 * IQR]

\* strict fences: a row on a fence is dropped
keep_strict(r, f) == 8 * r.price > f.lower_bound /\ 8 * r.price < f.upper_bound

\* the row filter of clean_data
keep(r, f) == 8 * r.price >= f.lower_bound /\ 8 * r.price <= f.upper_bound

categorize(r) ==
  [r EXCEPT !.price_category = cut(r.price, price_bins, price_labels),
            !.rating_category = cut(r.points, rating_bins, rating_labels)]

\* clean_data on the frame held in wine_data: the cleaned frame and the locals
clean_data(df) ==
  LET d    == dropna(df.rows)
      f    == fences(d)
      kept == SelectSeq(d, LAMBDA r : keep(r, f))
  IN [wine_data |-> DataFrame(df.cols \cup {"price_category", "rating_category"},
                              [i \in 1..Len(kept) |-> categorize(kept[i])]),
      cd |-> f]

(***************************************************************************)
(* Return values and exceptions                                            *)
(***************************************************************************)
RetNone == [kind |-> "None"]
RetBool(b) == [kind |-> "bool", val |-> b]
RetFrame(df) == IF df.isNone THEN RetNone ELSE [kind |-> "frame", val |-> df]
RetValue(v) == [kind |-> "value", val |-> v]
NoExc == "none"

\* pd.read_csv / pd.read_excel raise unless the file is there and parses
readable(file) == file.status = "ok"
read_csv(file) == DataFrame(file.cols, file.rows)

(***************************************************************************)
(* WineTrendsAnalyzer.load_data                                            *)
(***************************************************************************)
brazil(rows) == SelectSeq(rows, LAMBDA r : r.country = "Brazil")

\* load_data whose handler catches read failures only: a KeyError escapes
load_data_narrow(file, wd, bw) ==
  IF ~readable(file)
  THEN [wine_data |-> wd, brazilian_wines |-> bw, cd |-> NoClean,
        ret |-> RetBool(FALSE), exc |-> NoExc]
  ELSE LET raw == read_csv(file)
           br  == DataFrame(raw.cols, brazil(raw.rows))
       IN IF "country" \notin raw.cols
          THEN [wine_data |-> raw, brazilian_wines |-> bw, cd |-> NoClean,
                ret |-> RetNone, exc |-> "KeyError"]
          ELSE IF ~({"points", "price"} \subseteq raw.cols)
          THEN [wine_data |-> raw, brazilian_wines |-> br, cd |-> NoClean,
                ret |-> RetNone, exc |-> "KeyError"]
          ELSE LET c == clean_data(raw)
               IN [wine_data |-> c.wine_data, brazilian_wines |-> br, cd |-> c.cd,
                   ret |-> RetBool(TRUE), exc |-> NoExc]

\* load_data on an analyzer holding wd, bw: the new fields, the locals of the
\* clean_data it ran, its return value and the exception it lets escape
load_data(file, wd, bw) ==
  IF ~readable(file)
  THEN [wine_data |-> wd, brazilian_wines |-> bw, cd |-> NoClean,
        ret |-> RetBool(FALSE), exc |-> NoExc]
  ELSE LET raw == read_csv(file)
           br  == DataFrame(raw.cols, brazil(raw.rows))
       IN IF "country" \notin raw.cols
          THEN [wine_data |-> raw, brazilian_wines |-> bw, cd |-> NoClean,
                ret |-> RetBool(FALSE), exc |-> NoExc]
          ELSE IF ~({"points", "price"} \subseteq raw.cols)
          THEN [wine_data |-> raw, brazilian_wines |-> br, cd |-> NoClean,
                ret |-> RetBool(FALSE), exc |-> NoExc]
          ELSE LET c == clean_data(raw)
               IN [wine_data |-> c.wine_data, brazilian_wines |-> br, cd |-> c.cd,
                   ret |-> RetBool(TRUE), exc |-> NoExc]

(***************************************************************************)
(* Aggregation helpers                                                     *)
(***************************************************************************)
Min(a, b) == IF a <= b THEN a ELSE b

\* a / b rounded to the nearest integer, halves to even (numpy round); b > 0
RoundDiv(a, b) ==
  LET q == a \div b
      r == a % b
  IN IF 2 * r < b THEN q
     ELSE IF 2 * r > b THEN q + 1
     ELSE IF q % 2 = 0 THEN q ELSE q + 1

Column(rows, col) == [i \in 1..Len(rows) |-> rows[i][col]]

\* Series.value_counts(): the count of every non-null value of a text column
value_counts(rows, col) ==
  [v \in {rows[i][col] : i \in 1..Len(rows)} \ {NoLabel} |->
     Cardinality({i \in 1..Len(rows) : rows[i][col] = v})]

\* category counts that count the distinct rows of a category
category_counts_distinct(rows, col, labels) ==
  [l \in {labels[i] : i \in 1..Len(labels)} |->
     Cardinality({rows[i] : i \in {j \in 1..Len(rows) : rows[j][col] = l}})]

\* value_counts() of a categorical column lists every category
category_counts(rows, col, labels) ==
  [l \in {labels[i] : i \in 1..Len(labels)} |->
     Cardinality({i \in 1..Len(rows) : rows[i][col] = l})]

\* .head(n) of a value_counts(): the n most frequent keys; which of several
\* equally frequent keys make the cut is left to the sort, so any may
head(vc, n) ==
  {T \in SUBSET DOMAIN vc :
     /\ Cardinality(T) = Min(n, Cardinality(DOMAIN vc))
     /\ \A a \in T, b \in (DOMAIN vc) \ T : vc[a] >= vc[b]}

\* the orders a sort may leave S in, <<x, y>> \in first saying that x sorts
\* strictly before y; elements the key does not separate may land either way
RECURSIVE Orderings(_, _)
Orderings(S, first) ==
  IF S = {} THEN {<<>>}
  ELSE UNION {{<<x>> \o t : t \in Orderings(S \ {x}, first)} :
                x \in {y \in S : \A z \in S : <<z, y>> \notin first}}

\* Series.corr (Pearson) of price and points, kept as its exact terms:
\* corr = cov / sqrt(var_price * var_points), each scaled by n * n
corr(rows) ==
  LET n  == Len(rows)
      sx == SumSeq(Column(rows, "price"))
      sy == SumSeq(Column(rows, "points"))
  IN [n |-> n,
      cov |-> n * SumSeq([i \in 1..n |-> rows[i].price * rows[i].points]) - sx * sy,
      var_price |-> n * SumSeq([i \in 1..n |-> rows[i].price * rows[i].price]) - sx * sx,
      var_points |-> n * SumSeq([i \in 1..n |-> rows[i].points * rows[i].points]) - sy * sy]

corr_defined(c) == c.n >= 2 /\ c.var_price > 0 /\ c.var_points > 0

RECURSIVE GCD(_, _)
GCD(a, b) == IF b = 0 THEN a ELSE GCD(b, a % b)

Abs(x) == IF x >= 0 THEN x ELSE -x

\* the square of a defined coefficient with the sign of its covariance, as a
\* fraction in lower terms: cov * cov / (var_price * var_points)
corr_square(c) ==
  LET g1 == GCD(Abs(c.cov), c.var_price)
      g2 == GCD(Abs(c.cov), c.var_points)
  IN [num |-> (IF c.cov >= 0 THEN 1 ELSE -1) * (Abs(c.cov) \div g1) * (Abs(c.cov) \div g2),
      den |-> (c.var_price \div g1) * (c.var_points \div g2)]

\* c1 > c2 as correlation coefficients; False when either is undefined
corr_greater(c1, c2) ==
  /\ corr_defined(c1) /\ corr_defined(c2)
  /\ corr_square(c1).num * corr_square(c2).den > corr_square(c2).num * corr_square(c1).den

\* groupby(col).agg over the rows whose key is k: group size and the means
\* of points and price rounded to 2 decimals (times 100)
group_stats(rows, col, k) ==
  LET g == SelectSeq(rows, LAMBDA r : r[col] = k)
      n == Len(g)
  IN [key |-> k, count |-> n,
      points_mean |-> IF n = 0 THEN NaN ELSE RoundDiv(100 * SumSeq(Column(g, "points")), n),
      price_mean  |-> IF n = 0 THEN NaN ELSE RoundDiv(100 * SumSeq(Column(g, "price")), n)]

(***************************************************************************)
(* The analysis steps of WineTrendsAnalyzer.  Each gives the set of        *)
(* outcomes the step can end in: the exception it raises, or its value.    *)
(***************************************************************************)
\* value_counts().head(15) of analyze_variety_trends / analyze_regional_preferences
top_n == 15
\* value_counts().head(10) of the per-country correlations
top_countries_n == 10
\* nlargest(10, 'value_score')
best_premium_n == 10
\* the sweet spot: points >= 88 and price <= 30
sweet_spot_points == 88
sweet_spot_price == 30
\* premium wines: points >= 90
premium_points == 90
\* a country needs more than this many rows for its correlation
min_group_size == 50

analyze_price_quality_relationship(df) ==
  {[exc |-> NoExc,
    correlation |-> corr(df.rows),
    price_analysis |-> [l \in {price_labels[i] : i \in 1..Len(price_labels)} |->
                          group_stats(df.rows, "price_category", l)]]}

\* Custo_Benefício: round(price mean / points mean, 3), times 1000
cost_benefit(g) ==
  IF g.points_mean > 0 THEN RoundDiv(1000 * g.price_mean, g.points_mean)
  ELSE IF g.price_mean > 0 THEN Inf ELSE NaN

variety_stats(rows, v) ==
  LET g == group_stats(rows, "variety", v)
  IN [key |-> v, count |-> g.count, points_mean |-> g.points_mean,
      price_mean |-> g.price_mean, cost_benefit |-> cost_benefit(g)]

\* sort_values ascending, missing values last
ascending_by_cost(S) ==
  {<<x, y>> \in S \X S :
     \/ x.cost_benefit # NaN /\ y.cost_benefit # NaN /\ x.cost_benefit < y.cost_benefit
     \/ x.cost_benefit # NaN /\ y.cost_benefit = NaN}

analyze_variety_trends(df) ==
  IF "variety" \notin df.cols
  THEN {[exc |-> "KeyError", variety_analysis |-> <<>>]}
  ELSE {[exc |-> NoExc, variety_analysis |-> a] :
          a \in UNION {LET S == {variety_stats(df.rows, v) : v \in top}
                       IN Orderings(S, ascending_by_cost(S)) :
                       top \in head(value_counts(df.rows, "variety"), top_n)}}

\* sort_values without ascending=False: the lowest mean first
ascending_by_points(S) == {<<x, y>> \in S \X S : x.points_mean < y.points_mean}

\* sort_values('Pontuação_Média', ascending=False)
descending_by_points(S) == {<<x, y>> \in S \X S : x.points_mean > y.points_mean}

\* list(index).index('Brazil') + 1, or 0 when Brazil is not in the index
brazil_rank(a) ==
  LET at == {i \in 1..Len(a) : a[i].key = "Brazil"}
  IN IF at = {} THEN 0 ELSE CHOOSE i \in at : TRUE

analyze_regional_preferences(df) ==
  {[exc |-> NoExc, country_analysis |-> a, brazil_rank |-> brazil_rank(a)] :
     a \in UNION {LET S == {group_stats(df.rows, "country", c) : c \in top}
                  IN Orderings(S, descending_by_points(S)) :
                  top \in head(value_counts(df.rows, "country"), top_n)}}

\* value_score = points / price of row a above that of row b (a zero price
\* gives an infinite score)
score_greater(a, b) == a.points * b.price > b.points * a.price

\* DataFrame.nlargest(n, 'value_score'): the n best scores, best first, equal
\* scores in row order
RECURSIVE nlargest(_, _)
nlargest(rows, n) ==
  IF n = 0 \/ rows = <<>> THEN <<>>
  ELSE LET best == CHOOSE i \in 1..Len(rows) :
                     /\ \A j \in 1..Len(rows) : ~score_greater(rows[j], rows[i])
                     /\ \A j \in 1..(i - 1) : score_greater(rows[i], rows[j])
       IN <<rows[best]>> \o
          nlargest(SubSeq(rows, 1, best - 1) \o SubSeq(rows, best + 1, Len(rows)), n - 1)

country_rows(rows, c) == SelectSeq(rows, LAMBDA r : r.country = c)

\* the group-size guard of the per-country correlation
enough_rows(n) == n > min_group_size

correlation_entry(rows, c) ==
  [country |-> c, corr |-> corr(country_rows(rows, c)), count |-> Len(country_rows(rows, c))]

\* sort(key=corr, reverse=True): comparisons with an undefined corr are False
descending_by_corr(S) == {<<x, y>> \in S \X S : corr_greater(x.corr, y.corr)}

country_correlations(rows) ==
  UNION {LET S == {correlation_entry(rows, c) :
                     c \in {k \in top : enough_rows(Len(country_rows(rows, k)))}}
         IN Orderings(S, descending_by_corr(S)) :
         top \in head(value_counts(rows, "country"), top_countries_n)}

NoTrends == [sweet_spot |-> <<>>, best_premium |-> <<>>,
             price_distribution |-> <<>>, country_correlations |-> <<>>]

identify_purchase_trends(df) ==
  LET rows  == df.rows
      sweet == SelectSeq(rows, LAMBDA r : r.points >= sweet_spot_points
                                          /\ r.price <= sweet_spot_price)
      best  == nlargest(SelectSeq(rows, LAMBDA r : r.points >= premium_points),
                        best_premium_n)
  IN IF rows = <<>>
     THEN {[exc |-> "ZeroDivisionError", trends_data |-> NoTrends]}
     ELSE IF (sweet # <<>> /\ "variety" \notin df.cols)
             \/ (best # <<>> /\ "title" \notin df.cols)
     THEN {[exc |-> "KeyError", trends_data |-> NoTrends]}
     ELSE {[exc |-> NoExc,
            trends_data |-> [sweet_spot |-> sweet, best_premium |-> best,
                             price_distribution |->
                               category_counts(rows, "price_category", price_labels),
                             country_correlations |-> cc]] :
             cc \in country_correlations(rows)}

(***************************************************************************)
(* DataProcessor                                                           *)
(***************************************************************************)
\* load_wine_reviews that clears the field when the read fails
load_wine_reviews_reset(file, wr) ==
  IF readable(file)
  THEN [wine_reviews |-> read_csv(file), ret |-> RetFrame(read_csv(file)), exc |-> NoExc]
  ELSE [wine_reviews |-> None, ret |-> RetNone, exc |-> NoExc]

\* load_wine_reviews on a processor holding wr
load_wine_reviews(file, wr) ==
  IF readable(file)
  THEN [wine_reviews |-> read_csv(file), ret |-> RetFrame(read_csv(file)), exc |-> NoExc]
  ELSE [wine_reviews |-> wr, ret |-> RetNone, exc |-> NoExc]

\* load_embrapa_data on a processor holding ed
load_embrapa_data(file, ed) ==
  IF readable(file)
  THEN [embrapa_data |-> read_csv(file), ret |-> RetFrame(read_csv(file)), exc |-> NoExc]
  ELSE [embrapa_data |-> ed, ret |-> RetNone, exc |-> NoExc]

NonNull(xs) == SelectSeq(xs, LAMBDA x : x # NaN)

\* Series.mean(): the sum and the number of the non-null cells (0 of them: NaN)
mean(xs) == [sum |-> SumSeq(NonNull(xs)), n |-> Len(NonNull(xs))]

\* Series.min() / Series.max() over the non-null cells, NaN when there is none
min(xs) ==
  LET v == NonNull(xs)
  IN IF v = <<>> THEN NaN ELSE Sort(v)[1]
max(xs) ==
  LET v == NonNull(xs)
  IN IF v = <<>> THEN NaN ELSE Sort(v)[Len(v)]

\* brazilian_wines['variety'].value_counts().head(10)
top_varieties_n == 10

\* the analysis taken over the rows of every country
analysis_all_countries(rows, top) ==
  LET b == rows
  IN [total_reviews |-> Len(b),
      avg_points |-> mean(Column(b, "points")),
      avg_price |-> mean(Column(b, "price")),
      price_range |-> <<min(Column(b, "price")), max(Column(b, "price"))>>,
      top_varieties |-> [v \in top |-> value_counts(b, "variety")[v]]]

\* the analysis dictionary of analyze_wine_reviews over the frame's rows
analysis(rows, top) ==
  LET b == brazil(rows)
  IN [total_reviews |-> Len(b),
      avg_points |-> mean(Column(b, "points")),
      avg_price |-> mean(Column(b, "price")),
      price_range |-> <<min(Column(b, "price")), max(Column(b, "price"))>>,
      top_varieties |-> [v \in top |-> value_counts(b, "variety")[v]]]

\* the columns analyze_wine_reviews reads
AnalysisCols == {"country", "points", "price", "variety"}

\* analyze_wine_reviews that swallows a missing column and returns None
analyze_wine_reviews_caught(file, wr) ==
  LET w == IF wr.isNone THEN load_wine_reviews(file, wr).wine_reviews ELSE wr
  IN IF w.isNone \/ ~(AnalysisCols \subseteq w.cols)
     THEN {[wine_reviews |-> w, ret |-> RetNone, exc |-> NoExc]}
     ELSE {[wine_reviews |-> w, ret |-> RetValue(analysis(w.rows, top)), exc |-> NoExc] :
             top \in head(value_counts(brazil(w.rows), "variety"), top_varieties_n)}

\* analyze_wine_reviews on a processor holding wr: the outcomes it can end in
analyze_wine_reviews(file, wr) ==
  LET w == IF wr.isNone THEN load_wine_reviews(file, wr).wine_reviews ELSE wr
  IN IF w.isNone
     THEN {[wine_reviews |-> w, ret |-> RetNone, exc |-> NoExc]}
     ELSE IF ~(AnalysisCols \subseteq w.cols)
     THEN {[wine_reviews |-> w, ret |-> RetNone, exc |-> "KeyError"]}
     ELSE {[wine_reviews |-> w, ret |-> RetValue(analysis(w.rows, top)), exc |-> NoExc] :
             top \in head(value_counts(brazil(w.rows), "variety"), top_varieties_n)}

NotExplored == [reviews |-> "not loaded", embrapa |-> "not loaded", touched |-> {},
                printed |-> RetNone]

\* explore_datasets: the fields it leaves, the exception that escapes it, what
\* each load returned, the datasets whose columns it read and the analysis of
\* the Brazilian wines it printed
explore_datasets(file, xfile, wr, ed) ==
  LET r == load_wine_reviews(file, wr)
      e == load_embrapa_data(xfile, ed)
      seen == IF r.ret.kind = "None" THEN {} ELSE {"reviews"}
      stop == [wine_reviews |-> r.wine_reviews, embrapa_data |-> ed, exc |-> "KeyError",
               explored |-> [reviews |-> r.ret.kind, embrapa |-> "not loaded",
                             touched |-> seen, printed |-> RetNone]]
  IN IF r.ret.kind # "None" /\ "country" \notin r.wine_reviews.cols
     THEN {stop}
     ELSE IF r.ret.kind # "None" /\ ~(AnalysisCols \subseteq r.wine_reviews.cols)
     THEN {stop}
     ELSE {[wine_reviews |-> r.wine_reviews, embrapa_data |-> e.embrapa_data,
            exc |-> NoExc,
            explored |-> [reviews |-> r.ret.kind, embrapa |-> e.ret.kind,
                          touched |-> seen \cup
                                      (IF e.ret.kind = "None" THEN {} ELSE {"embrapa"}),
                          printed |-> a.ret]] :
             a \in IF r.ret.kind = "None" THEN {[ret |-> RetNone]}
                   ELSE analyze_wine_reviews(file, r.wine_reviews)}

(***************************************************************************)
(* WineExportAnalyzer: the random source                                   *)
(*                                                                         *)
(* The state of np.random is the stream of draws still to come: `burst`    *)
(* draws at the extreme low end of their distribution, then the levels of  *)
(* `cycle` over and over from position `pos`.  A level picks a point of    *)
(* the distribution drawn from: level 0 is 5 standard deviations below     *)
(* the mean of a normal and the low end of a uniform, levels 1..3 are -1,  *)
(* 0 and +1 standard deviations and the quarter points of a uniform.       *)
(***************************************************************************)
\* seeds run from 0 to MaxSeed
MaxSeed == 8

z_scores == <<-5, -1, 0, 1>>
\* a uniform is cut at as many points as there are levels
quarters == Len(z_scores)

\* how many opening draws sit at level 0: none, those of the first export
\* year, or those of a whole generate_mock_data
bursts == <<0, 30, 585>>
cycles == <<<<1, 2>>, <<2, 3>>, <<3, 1>>, <<2, 2>>>>

\* np.random.seed(seed): the state a seed puts the generator in
seed_state(seed) ==
  [burst |-> bursts[(seed % Len(bursts)) + 1],
   cycle |-> cycles[((seed \div Len(bursts)) % Len(cycles)) + 1],
   pos   |-> 0]

\* the level of the i-th draw from state r, i = 0 for the next one
level(r, i) ==
  IF i < r.burst THEN 0
  ELSE r.cycle[((r.pos + (i - r.burst)) % Len(r.cycle)) + 1]

\* the state after n draws
advance(r, n) ==
  IF n <= r.burst THEN [r EXCEPT !.burst = r.burst - n]
  ELSE [r EXCEPT !.burst = 0, !.pos = (r.pos + (n - r.burst)) % Len(r.cycle)]

\* np.random.normal(mu, sigma), np.random.uniform(low, high) and
\* np.random.randint(low, high) at the i-th draw from r
normal(mu, sigma, r, i) == mu + sigma * z_scores[level(r, i) + 1]
uniform(low, high, r, i) == low + ((high - low) * level(r, i)) \div quarters
randint(low, high, r, i) == low + ((high - low) * level(r, i)) \div quarters

(***************************************************************************)
(* WineExportAnalyzer.generate_mock_data: the five tables.  Scaled units:  *)
(* volume_litros in 5000 l, valor_usd in 25 US$, pib_brasil in 10^10,      *)
(* taxa_cambio_usd_brl in 0.1; the other columns in their own unit.        *)
(***************************************************************************)
countries == <<"Estados Unidos", "Reino Unido", "Alemanha", "Canadá", "França",
               "Japão", "China", "Argentina", "Paraguai", "Uruguai">>
first_year == 2009
last_year == 2023
years == [i \in 1..(last_year - first_year + 1) |-> first_year + i - 1]

Max(a, b) == IF a >= b THEN a ELSE b

\* the draws one row of each table takes
export_draws == 3
climate_draws == 3
demographic_draws == 1
economic_draws == 2
rating_draws == 3

\* the row of (year, country) drawn with the three draws from offset i
export_row(year, country, r, i) ==
  LET base_volume     == normal(10, 2, r, i)
      growth_factor   == 20 + (year - first_year) + normal(0, 2, r, i + 1)
      volume          == Max(0, base_volume * growth_factor)
      base_price      == uniform(5, 16, r, i + 2)
      price_factor    == 100 + (year - first_year) * 3
      price_per_liter == base_price * price_factor
  IN [ano |-> year, pais_destino |-> country, volume_litros |-> volume,
      valor_usd |-> (volume * price_per_liter) \div 100]

\* years and countries walked side by side instead of nested: as many rows,
\* but pairs repeat and pairs are missing
mock_export_data_paired(r, at) ==
  [k \in 1..(Len(years) * Len(countries)) |->
     LET y == ((k - 1) % Len(years)) + 1
         c == ((k - 1) % Len(countries)) + 1
     IN export_row(years[y], countries[c], r, at + export_draws * (k - 1))]

\* for year in years: for country in countries: append
mock_export_data(r, at) ==
  [k \in 1..(Len(years) * Len(countries)) |->
     LET y == ((k - 1) \div Len(countries)) + 1
         c == ((k - 1) % Len(countries)) + 1
     IN export_row(years[y], countries[c], r, at + export_draws * (k - 1))]

mock_climate_data(r, at) ==
  [y \in 1..Len(years) |->
     LET i == at + climate_draws * (y - 1)
     IN [ano |-> years[y],
         temperatura_media |-> normal(25, 2, r, i),
         precipitacao_mm |-> normal(1200, 200, r, i + 1),
         dias_sol |-> normal(250, 30, r, i + 2)]]

mock_demographic_data(r, at) ==
  [y \in 1..Len(years) |->
     LET i == at + demographic_draws * (y - 1)
     IN [ano |-> years[y],
         populacao_brasil |-> 200000000 + (years[y] - first_year) * 2000000,
         renda_per_capita |-> 8000 + (years[y] - first_year) * 200 + normal(0, 500, r, i)]]

mock_economic_data(r, at) ==
  [y \in 1..Len(years) |->
     LET i == at + economic_draws * (y - 1)
     IN [ano |-> years[y],
         pib_brasil |-> 200 + (years[y] - first_year) * 5,
         taxa_cambio_usd_brl |-> uniform(18, 55, r, i),
         inflacao |-> uniform(2, 12, r, i + 1)]]

mock_wine_ratings(r, at) ==
  [y \in 1..Len(years) |->
     LET i == at + rating_draws * (y - 1)
     IN [ano |-> years[y],
         pontuacao_media |-> uniform(82, 92, r, i),
         num_avaliacoes |-> randint(500, 2000, r, i + 1),
         preco_medio_garrafa |-> uniform(15, 45, r, i + 2)]]

\* the fields of a WineExportAnalyzer that has generated nothing
NoTables == [export_data |-> None, climate_data |-> None, demographic_data |-> None,
             economic_data |-> None, wine_ratings |-> None]

(***************************************************************************)
(* WineExportAnalyzer: the yearly join and the executive summary           *)
(***************************************************************************)
\* the members of a set of numbers in ascending order
RECURSIVE Ascending(_)
Ascending(S) ==
  IF S = {} THEN <<>>
  ELSE LET m == CHOOSE x \in S : \A y \in S : x <= y
       IN <<m>> \o Ascending(S \ {m})

RECURSIVE Flatten(_)
Flatten(ss) == IF ss = <<>> THEN <<>> ELSE Head(ss) \o Flatten(Tail(ss))

\* export_data.groupby('ano').agg(sum).reset_index(): one row per year that
\* occurs, years ascending
yearly_export(rows) ==
  LET keys == Ascending({rows[i].ano : i \in 1..Len(rows)})
  IN [k \in 1..Len(keys) |->
        LET g == SelectSeq(rows, LAMBDA x : x.ano = keys[k])
        IN [ano |-> keys[k],
            volume_litros |-> SumSeq(Column(g, "volume_litros")),
            valor_usd |-> SumSeq(Column(g, "valor_usd"))]]

\* left.merge(right, on='ano'): an inner join, in the order of the left rows,
\* each left row once for every right row of its year
merge(left, right) ==
  Flatten([i \in 1..Len(left) |->
             LET m == SelectSeq(right, LAMBDA x : x.ano = left[i].ano)
             IN [j \in 1..Len(m) |-> left[i] @@ m[j]]])

\* create_correlation_analysis on the tables t: the analysis_data it returns
create_correlation_analysis(t) ==
  merge(merge(merge(yearly_export(t.export_data.rows), t.climate_data.rows),
              t.economic_data.rows),
        t.wine_ratings.rows)

\* the years create_future_projections predicts
first_projection == 2024
last_projection == 2028
\* create_future_projections: the fitted values are printed at the end of
\* the summary and enter nothing else; they are not computed here
create_future_projections(a) ==
  [year \in first_projection..last_projection |-> "fitted"]

\* a / b in floating point: 0 / 0 is nan, anything else over 0 is inf
Ratio(a, b) ==
  IF b # 0 THEN [kind |-> "finite", num |-> a, den |-> b]
  ELSE IF a = 0 THEN [kind |-> "nan"]
  ELSE [kind |-> "inf"]

NoSummary == [avg_price_per_liter |-> [kind |-> "none"],
              growth_rate_volume |-> [kind |-> "none"],
              growth_rate_value |-> [kind |-> "none"]]

\* generate_executive_summary: the average price and the ratios whose 14th
\* root gives the growth rates (a nan or inf ratio gives a nan or inf rate)
generate_executive_summary(a) ==
  IF a = <<>> THEN [exc |-> "IndexError", summary |-> NoSummary]
  ELSE
  [exc |-> NoExc, summary |->
  [avg_price_per_liter |-> Ratio(SumSeq(Column(a, "valor_usd")),
                                 SumSeq(Column(a, "volume_litros"))),
   growth_rate_volume  |-> Ratio(a[Len(a)].volume_litros, a[1].volume_litros),
   growth_rate_value   |-> Ratio(a[Len(a)].valor_usd, a[1].valor_usd)]]

(***************************************************************************)
(* Input files                                                             *)
(***************************************************************************)
\* rows of a price column under study
MaxPrices == 4
\* rows of a file with mixed countries and varieties
MaxRows == 2
\* countries of a file with groups around min_group_size rows
MaxGroups == 2

File(status, cols, rows) == [status |-> status, cols |-> cols, rows |-> rows]
Rows(S, n) == SeqsUpTo(S, n)

PriceDom == {NaN, 0, 10, 20, 100}
PriceFiles ==
  {File("ok", ExpectedCols, r) :
     r \in Rows({Row("US", 88, p, "Merlot") : p \in PriceDom}, MaxPrices)}

EdgePoints == {NaN, 0, 82, 83, 87, 88, 90, 91, 95, 96, 100, 101}
EdgePrices == {NaN, 0, 14, 15, 16, 30, 31, 50, 51, 100, 101}
\* one-row files whose cells sit on, just below and just above the bin edges
EdgeFiles ==
  {File("ok", ExpectedCols, <<Row("Brazil", pt, pr, "Merlot")>>) :
     pt \in EdgePoints, pr \in EdgePrices}

MixedRows ==
  {Row(c, x[1], x[2], v) : c \in {"Brazil", "US", NoLabel}, v \in {"Merlot", "Malbec"},
                           x \in {<<85, 10>>, <<92, 40>>}}
MixedFiles == {File("ok", ExpectedCols, r) : r \in Rows(MixedRows, MaxRows)}

CountryNames == <<"Brazil", "US", "France", "Italy", "Spain", "Portugal", "Chile",
                  "Argentina", "Austria", "Germany", "Australia", "Israel",
                  "Greece", "Hungary", "Uruguay", "Georgia">>
VarietyNames == <<"Merlot", "Malbec", "Syrah", "Tannat", "Chardonnay", "Riesling",
                  "Pinot Noir", "Cabernet Sauvignon", "Sauvignon Blanc", "Zinfandel",
                  "Sangiovese", "Nebbiolo", "Tempranillo", "Grenache", "Carmenere",
                  "Viognier">>

\* n rows of country c, prices and points alternating so that they correlate
Block(c, n) ==
  [i \in 1..n |-> IF i % 2 = 0 THEN Row(c, 85, 10, "Merlot") ELSE Row(c, 90, 20, "Malbec")]

RECURSIVE Blocks(_, _)
Blocks(sizes, k) ==
  IF k = 0 THEN <<>> ELSE Blocks(sizes, k - 1) \o Block(CountryNames[k], sizes[k])

GroupSizes == {min_group_size - 1, min_group_size, min_group_size + 1}
GroupFiles ==
  {File("ok", ExpectedCols, Blocks(sizes, k) \o tail) :
     k \in 1..MaxGroups, sizes \in [1..MaxGroups -> GroupSizes],
     tail \in {<<>>, <<Row(CountryNames[1], 88, NaN, "Merlot")>>}}

\* one country above the guard and more small countries than the head keeps
ManyCountriesFile ==
  File("ok", ExpectedCols,
       Block(CountryNames[1], min_group_size + 1) \o
       [i \in 1..(top_countries_n + 1) |-> Row(CountryNames[i + 1], 80 + i, 20, "Merlot")])

\* the j-th wine of the k-th country: points differ from country to country,
\* prices and varieties run across the countries
RankingRow(k, j) ==
  Row(CountryNames[k],
      IF k = Len(CountryNames) THEN 99 ELSE 80 + ((7 * k) % Len(CountryNames)),
      10 + 5 * ((k + j) % 4),
      VarietyNames[((k + 5 * j) % Len(VarietyNames)) + 1])

\* more countries and more varieties than the head of 15 keeps: two wines of
\* every country but the last, which has one wine and the most points
RankingFile ==
  File("ok", ExpectedCols,
       [i \in 1..(2 * Len(CountryNames) - 1) |-> RankingRow((i + 1) \div 2, 2 - (i % 2))])

\* a row of a file without column c carries no cell for it
Without(r, c) ==
  IF c \in {"points", "price"} THEN [r EXCEPT ![c] = NaN]
  ELSE IF c \in {"country", "variety"} THEN [r EXCEPT ![c] = NoLabel]
  ELSE r

SchemaRows == <<Row("Brazil", 88, 20, "Merlot"), Row("US", 92, 45, "Malbec")>>
SchemaFiles ==
  {File("ok", ExpectedCols \ {c}, [i \in 1..Len(SchemaRows) |-> Without(SchemaRows[i], c)]) :
     c \in ExpectedCols}
  \cup {File("missing", {}, <<>>), File("corrupt", {}, <<>>)}

\* the review files the trends script is run on
IsTrendsFile(f) ==
  \/ f \in PriceFiles
  \/ f \in EdgeFiles
  \/ f \in MixedFiles
  \/ f \in GroupFiles
  \/ f = ManyCountriesFile
  \/ f = RankingFile
  \/ f \in SchemaFiles

ReviewRows ==
  {Row(c, x[1], x[2], v) : c \in {"Brazil", "US"}, v \in {"Merlot"},
                           x \in {<<88, 20>>, <<92, 45>>, <<NaN, 20>>, <<90, NaN>>}}
\* two Brazilian wines, (88, 20) and (92, 45), among wines of another country
ScenarioFile ==
  File("ok", ExpectedCols,
       <<Row("US", 95, 100, "Malbec"), Row("Brazil", 88, 20, "Merlot"),
         Row("Brazil", 92, 45, "Merlot"), Row("US", 80, 5, "Merlot")>>)

ProcessorFiles ==
  {File("ok", ExpectedCols, r) : r \in Rows(ReviewRows, MaxRows)} \cup SchemaFiles
  \cup {ScenarioFile}

\* the spreadsheet: its schema is not relied upon
XlsxFiles == {File("ok", {"a"}, <<[a |-> 1]>>), File("missing", {}, <<>>)}

(***************************************************************************)
(* State                                                                   *)
(***************************************************************************)
VARIABLES
  script,          \* the script this process runs: "trends", "processor", "export"
  csv_file,        \* raw-data/winemag-data-130k-v2.csv on disk
  xlsx_file,       \* the Embrapa spreadsheet on disk
  wine_data,       \* WineTrendsAnalyzer.wine_data
  brazilian_wines, \* WineTrendsAnalyzer.brazilian_wines
  cd,              \* the locals of the last clean_data
  wine_reviews,    \* DataProcessor.wine_reviews
  embrapa_data,    \* DataProcessor.embrapa_data
  pc,              \* where the process is
  last,            \* the method called last
  ret,             \* what it returned
  exc,             \* the exception that escaped it
  loaded,          \* what load_data returned to run_complete_analysis
  steps,           \* the analysis steps run_complete_analysis has entered
  out,             \* what the analysis steps returned
  explored,        \* what the last explore_datasets loaded and read
  rng,             \* the state of np.random
  clock,           \* the wall clock: which run of the export script this is
  started,         \* the state of np.random when generate_mock_data began
  export_analyzer, \* the five tables of the WineExportAnalyzer
  analysis_data,   \* what create_correlation_analysis returned
  projected,       \* what create_future_projections returned
  summary,         \* what generate_executive_summary reported
  earlier          \* the run before this one: where it started, what it generated

vars == <<script, csv_file, xlsx_file, wine_data, brazilian_wines, cd, wine_reviews,
          embrapa_data, pc, last, ret, exc, loaded, steps, out, explored,
          rng, clock, started, export_analyzer, analysis_data, projected, summary,
          earlier>>

files == <<csv_file, xlsx_file>>
analyzer == <<wine_data, brazilian_wines, cd, loaded, steps, out>>
processor == <<wine_reviews, embrapa_data, explored>>
exporter == <<rng, clock, started, export_analyzer, analysis_data, projected, summary,
              earlier>>

\* runs of the export script
MaxRuns == 2
NoRun == [ran |-> FALSE, started |-> seed_state(0), tables |-> NoTables]

NoOut == [correlation |-> <<>>, price_analysis |-> <<>>, variety_analysis |-> <<>>,
          country_analysis |-> <<>>, brazil_rank |-> 0, trends_data |-> NoTrends]

Init ==
  /\ \/ /\ script = "trends" /\ IsTrendsFile(csv_file)
        /\ xlsx_file = File("missing", {}, <<>>) /\ rng = seed_state(0)
     \/ /\ script = "processor" /\ csv_file \in ProcessorFiles /\ xlsx_file \in XlsxFiles
        /\ rng = seed_state(0)
     \/ /\ script = "export" /\ csv_file = File("missing", {}, <<>>)
        /\ xlsx_file = File("missing", {}, <<>>)
        /\ rng \in {seed_state(s) : s \in 0..MaxSeed}
  /\ clock = 1 /\ started = rng /\ export_analyzer = NoTables /\ analysis_data = <<>>
  /\ projected = <<>> /\ summary = NoSummary /\ earlier = NoRun
  /\ wine_data = None /\ brazilian_wines = None /\ cd = NoClean
  /\ wine_reviews = None /\ embrapa_data = None
  /\ pc = "start" /\ last = "__init__" /\ ret = RetNone /\ exc = NoExc
  /\ loaded = "not called" /\ steps = <<>> /\ out = NoOut /\ explored = NotExplored

(***************************************************************************)
(* WineTrendsAnalyzer                                                      *)
(***************************************************************************)
\* run_complete_analysis that goes on whatever load_data returned
after_load_unchecked(L) == IF L.exc # NoExc THEN "raised" ELSE "price_quality"

\* where run_complete_analysis goes after its load_data call
after_load(L) ==
  IF L.exc # NoExc THEN "raised"
  ELSE IF ~L.ret.val THEN "done"
  ELSE "price_quality"

\* a direct call of load_data
LoadData ==
  /\ script = "trends" /\ pc = "start"
  /\ LET L == load_data(csv_file, wine_data, brazilian_wines)
     IN /\ wine_data' = L.wine_data
        /\ brazilian_wines' = L.brazilian_wines
        /\ cd' = L.cd
        /\ ret' = L.ret
        /\ exc' = L.exc
        /\ pc' = IF L.exc = NoExc THEN "start" ELSE "raised"
  /\ last' = "load_data"
  /\ UNCHANGED <<script, exporter, files, processor, loaded, steps, out>>

\* run_complete_analysis up to the return of its load_data call
RunCompleteAnalysis ==
  /\ script = "trends" /\ pc = "start"
  /\ LET L == load_data(csv_file, wine_data, brazilian_wines)
     IN /\ wine_data' = L.wine_data
        /\ brazilian_wines' = L.brazilian_wines
        /\ cd' = L.cd
        /\ loaded' = IF L.exc # NoExc THEN "raised" ELSE IF L.ret.val THEN "True" ELSE "False"
        /\ exc' = L.exc
        /\ pc' = after_load(L)
  /\ ret' = RetNone
  /\ last' = "run_complete_analysis"
  /\ UNCHANGED <<script, exporter, files, processor, steps, out>>

\* one analysis step of run_complete_analysis: it ends in outcome o
Step(at, name, next, o) ==
  /\ script = "trends" /\ pc = at
  /\ steps' = Append(steps, name)
  /\ exc' = o.exc
  /\ pc' = IF o.exc = NoExc THEN next ELSE "raised"
  /\ UNCHANGED <<script, exporter, files, processor, wine_data, brazilian_wines, cd, loaded, last>>

AnalyzePriceQualityRelationship ==
  \E o \in analyze_price_quality_relationship(wine_data) :
    /\ Step("price_quality", "analyze_price_quality_relationship", "variety", o)
    /\ out' = [out EXCEPT !.correlation = o.correlation,
                          !.price_analysis = o.price_analysis]
    /\ ret' = ret

AnalyzeVarietyTrends ==
  \E o \in analyze_variety_trends(wine_data) :
    /\ Step("variety", "analyze_variety_trends", "regional", o)
    /\ out' = [out EXCEPT !.variety_analysis = o.variety_analysis]
    /\ ret' = ret

AnalyzeRegionalPreferences ==
  \E o \in analyze_regional_preferences(wine_data) :
    /\ Step("regional", "analyze_regional_preferences", "trends", o)
    /\ out' = [out EXCEPT !.country_analysis = o.country_analysis,
                          !.brazil_rank = o.brazil_rank]
    /\ ret' = ret

IdentifyPurchaseTrends ==
  \E o \in identify_purchase_trends(wine_data) :
    /\ Step("trends", "identify_purchase_trends", "recommend", o)
    /\ out' = [out EXCEPT !.trends_data = o.trends_data]
    /\ ret' = ret

\* generate_recommendations prints; run_complete_analysis then returns the results
GenerateRecommendations ==
  /\ Step("recommend", "generate_recommendations", "done", [exc |-> NoExc])
  /\ ret' = RetValue(out)
  /\ out' = out

(***************************************************************************)
(* DataProcessor                                                           *)
(***************************************************************************)
LoadWineReviews ==
  /\ script = "processor" /\ pc = "start"
  /\ LET r == load_wine_reviews(csv_file, wine_reviews)
     IN wine_reviews' = r.wine_reviews /\ ret' = r.ret /\ exc' = r.exc
  /\ last' = "load_wine_reviews"
  /\ UNCHANGED <<script, exporter, files, analyzer, embrapa_data, explored, pc>>

LoadEmbrapaData ==
  /\ script = "processor" /\ pc = "start"
  /\ LET r == load_embrapa_data(xlsx_file, embrapa_data)
     IN embrapa_data' = r.embrapa_data /\ ret' = r.ret /\ exc' = r.exc
  /\ last' = "load_embrapa_data"
  /\ UNCHANGED <<script, exporter, files, analyzer, wine_reviews, explored, pc>>

AnalyzeWineReviews ==
  /\ script = "processor" /\ pc = "start"
  /\ \E r \in analyze_wine_reviews(csv_file, wine_reviews) :
       /\ wine_reviews' = r.wine_reviews /\ ret' = r.ret /\ exc' = r.exc
       /\ pc' = IF r.exc = NoExc THEN "start" ELSE "raised"
  /\ last' = "analyze_wine_reviews"
  /\ UNCHANGED <<script, exporter, files, analyzer, embrapa_data, explored>>

ExploreDatasets ==
  /\ script = "processor" /\ pc = "start"
  /\ \E r \in explore_datasets(csv_file, xlsx_file, wine_reviews, embrapa_data) :
       /\ wine_reviews' = r.wine_reviews /\ embrapa_data' = r.embrapa_data
       /\ explored' = r.explored /\ exc' = r.exc
       /\ pc' = IF r.exc = NoExc THEN "start" ELSE "raised"
  /\ ret' = RetNone
  /\ last' = "explore_datasets"
  /\ UNCHANGED <<script, exporter, files, analyzer>>

(***************************************************************************)
(* WineExportAnalyzer                                                      *)
(***************************************************************************)
\* the draws of one generate_mock_data
total_draws ==
  Len(years) * (Len(countries) * export_draws + climate_draws + demographic_draws
                + economic_draws + rating_draws)

\* the five tables drawn from the state r, table after table
tables_from(r) ==
  LET climate_at     == Len(years) * Len(countries) * export_draws
      demographic_at == climate_at + Len(years) * climate_draws
      economic_at    == demographic_at + Len(years) * demographic_draws
      rating_at      == economic_at + Len(years) * economic_draws
  IN [export_data |->
        DataFrame({"ano", "pais_destino", "volume_litros", "valor_usd"},
                  mock_export_data(r, 0)),
      climate_data |->
        DataFrame({"ano", "temperatura_media", "precipitacao_mm", "dias_sol"},
                  mock_climate_data(r, climate_at)),
      demographic_data |->
        DataFrame({"ano", "populacao_brasil", "renda_per_capita"},
                  mock_demographic_data(r, demographic_at)),
      economic_data |->
        DataFrame({"ano", "pib_brasil", "taxa_cambio_usd_brl", "inflacao"},
                  mock_economic_data(r, economic_at)),
      wine_ratings |->
        DataFrame({"ano", "pontuacao_media", "num_avaliacoes", "preco_medio_garrafa"},
                  mock_wine_ratings(r, rating_at))]

\* generate_mock_data that first reseeds np.random from the wall clock
generate_mock_data_clock(r) ==
  [tables |-> tables_from(seed_state(clock)),
   rng |-> advance(seed_state(clock), total_draws)]

\* generate_mock_data with np.random in state r: the tables and the state
\* np.random is left in
generate_mock_data(r) ==
  [tables |-> tables_from(r), rng |-> advance(r, total_draws)]

GenerateMockData ==
  /\ script = "export" /\ pc = "start"
  /\ LET g == generate_mock_data(rng)
     IN export_analyzer' = g.tables /\ rng' = g.rng
  /\ started' = rng
  /\ pc' = "evolution" /\ last' = "generate_mock_data" /\ ret' = RetNone /\ exc' = NoExc
  /\ UNCHANGED <<script, files, analyzer, processor, clock, analysis_data, projected,
                 summary, earlier>>

\* a chart method: it reads export_data, draws and saves the chart
Chart(at, name, next) ==
  /\ script = "export" /\ pc = at
  /\ pc' = next /\ last' = name /\ ret' = RetNone /\ exc' = NoExc
  /\ UNCHANGED <<script, files, analyzer, processor, exporter>>

CreateExportEvolutionChart == Chart("evolution", "create_export_evolution_chart", "countries")
CreateCountryAnalysis == Chart("countries", "create_country_analysis", "correlation")

CreateCorrelationAnalysis ==
  /\ script = "export" /\ pc = "correlation"
  /\ analysis_data' = create_correlation_analysis(export_analyzer)
  /\ pc' = "projections" /\ last' = "create_correlation_analysis"
  /\ ret' = RetValue(analysis_data') /\ exc' = NoExc
  /\ UNCHANGED <<script, files, analyzer, processor, rng, clock, started, export_analyzer,
                 projected, summary, earlier>>

CreateFutureProjections ==
  /\ script = "export" /\ pc = "projections"
  /\ projected' = create_future_projections(analysis_data)
  /\ pc' = "summary" /\ last' = "create_future_projections"
  /\ ret' = RetValue(projected') /\ exc' = NoExc
  /\ UNCHANGED <<script, files, analyzer, processor, rng, clock, started, export_analyzer,
                 analysis_data, summary, earlier>>

GenerateExecutiveSummary ==
  /\ script = "export" /\ pc = "summary"
  /\ LET g == generate_executive_summary(analysis_data)
     IN /\ summary' = g.summary /\ exc' = g.exc
        /\ pc' = IF g.exc = NoExc THEN "done" ELSE "raised"
  /\ last' = "generate_executive_summary" /\ ret' = RetNone
  /\ UNCHANGED <<script, files, analyzer, processor, rng, clock, started, export_analyzer,
                 analysis_data, projected, earlier>>

\* the script is run again, by a new process with a new analyzer and a
\* generator seeded afresh
RunAgain ==
  /\ script = "export" /\ pc = "done" /\ clock < MaxRuns
  /\ clock' = clock + 1
  /\ rng' \in {seed_state(s) : s \in 0..MaxSeed}
  /\ started' = rng'
  /\ earlier' = [ran |-> TRUE, started |-> started, tables |-> export_analyzer]
  /\ export_analyzer' = NoTables /\ analysis_data' = <<>> /\ projected' = <<>>
  /\ summary' = NoSummary
  /\ pc' = "start" /\ last' = "__init__" /\ ret' = RetNone /\ exc' = NoExc
  /\ UNCHANGED <<script, files, analyzer, processor>>

(***************************************************************************)
(* The file system                                                         *)
(***************************************************************************)
\* a file is deleted or made unreadable between two calls
RemoveCsv ==
  /\ pc = "start" /\ csv_file.status = "ok"
  /\ csv_file' = File("missing", {}, <<>>)
  /\ UNCHANGED <<script, exporter, xlsx_file, analyzer, processor, pc, last, ret, exc>>

RemoveXlsx ==
  /\ script = "processor" /\ pc = "start" /\ xlsx_file.status = "ok"
  /\ xlsx_file' = File("missing", {}, <<>>)
  /\ UNCHANGED <<script, exporter, csv_file, analyzer, processor, pc, last, ret, exc>>

\* the review file is written anew while a processor may hold its old content
RewriteCsv ==
  /\ script = "processor" /\ pc = "start" /\ csv_file # ScenarioFile
  /\ csv_file' = ScenarioFile
  /\ UNCHANGED <<script, exporter, xlsx_file, analyzer, processor, pc, last, ret, exc>>

Next ==
  \/ LoadData
  \/ RunCompleteAnalysis
  \/ AnalyzePriceQualityRelationship
  \/ AnalyzeVarietyTrends
  \/ AnalyzeRegionalPreferences
  \/ IdentifyPurchaseTrends
  \/ GenerateRecommendations
  \/ LoadWineReviews
  \/ LoadEmbrapaData
  \/ AnalyzeWineReviews
  \/ ExploreDatasets
  \/ GenerateMockData
  \/ CreateExportEvolutionChart
  \/ CreateCountryAnalysis
  \/ CreateCorrelationAnalysis
  \/ CreateFutureProjections
  \/ GenerateExecutiveSummary
  \/ RunAgain
  \/ RemoveCsv
  \/ RemoveXlsx
  \/ RewriteCsv

Spec == Init /\ [][Next]_vars

(***************************************************************************)
(* Properties                                                              *)
(***************************************************************************)
\* the step is a call of load_data, direct or from run_complete_analysis
LoadDataCall == LoadData \/ RunCompleteAnalysis
LoadDataFailed == (LoadData /\ ret' = RetBool(FALSE)) \/ (RunCompleteAnalysis /\ loaded' = "False")
LoadDataSucceeded == (LoadData /\ ret' = RetBool(TRUE)) \/ (RunCompleteAnalysis /\ loaded' = "True")

\* C1: no loader call lets an exception escape.  load_wine_reviews and
\* load_embrapa_data return the frame they read when the file reads and None
\* when it does not; load_data returns True or False, and False whenever the
\* file does not read.
C1_LoadersNeverRaise ==
  [][/\ LoadWineReviews =>
          /\ exc' = NoExc /\ pc' # "raised"
          /\ IF readable(csv_file)
             THEN ret'.kind = "frame" /\ ret'.val = DataFrame(csv_file.cols, csv_file.rows)
             ELSE ret' = RetNone
     /\ LoadEmbrapaData =>
          /\ exc' = NoExc /\ pc' # "raised"
          /\ IF readable(xlsx_file)
             THEN ret'.kind = "frame" /\ ret'.val = DataFrame(xlsx_file.cols, xlsx_file.rows)
             ELSE ret' = RetNone
     /\ LoadData =>
          /\ exc' = NoExc /\ pc' # "raised"
          /\ ret'.kind = "bool"
          /\ ~readable(csv_file) => ret'.val = FALSE
     /\ RunCompleteAnalysis =>
          /\ exc' = NoExc /\ pc' # "raised"
          /\ loaded' \in {"True", "False"}
          /\ ~readable(csv_file) => loaded' = "False"]_vars

\* a read that fails ends in the sentinel, a schema failure in False
C1_Witness ==
  last = "load_wine_reviews" /\ csv_file.status = "corrupt" /\ ret = RetNone /\ exc = NoExc

\* C2: no analysis step is entered unless load_data returned True to
\* run_complete_analysis, which returns nothing after a failed load;
\* analyze_wine_reviews returns None when it holds no reviews after its load
\* attempt; explore_datasets reads the columns only of a dataset whose load
\* did not return None.
C2_NoStepOnFailedLoad ==
  /\ steps # <<>> => loaded = "True"
  /\ (last = "run_complete_analysis" /\ loaded = "False") =>
        pc = "done" /\ ret = RetNone /\ steps = <<>> /\ out = NoOut
  /\ (last = "analyze_wine_reviews" /\ wine_reviews.isNone) => ret = RetNone /\ exc = NoExc
  /\ (last = "analyze_wine_reviews" /\ ret.kind = "value") => ~wine_reviews.isNone
  /\ "reviews" \in explored.touched => explored.reviews = "frame"
  /\ "embrapa" \in explored.touched => explored.embrapa = "frame"

C2_Witness ==
  /\ last = "run_complete_analysis" /\ csv_file.status = "missing"
  /\ loaded = "False" /\ pc = "done" /\ steps = <<>>

\* a frame is fully cleaned: no null points or price, both category columns set
FullyCleaned(df) ==
  /\ ~df.isNone
  /\ {"price_category", "rating_category"} \subseteq df.cols
  /\ \A i \in 1..Len(df.rows) : df.rows[i].points # NaN /\ df.rows[i].price # NaN

\* C3: a load is all-or-nothing.  When load_data returns False, wine_data and
\* brazilian_wines are what they were before the call; when it returns True,
\* wine_data is the cleaned frame.
C3_AllOrNothing ==
  [][/\ LoadDataFailed => wine_data' = wine_data /\ brazilian_wines' = brazilian_wines
     /\ LoadDataSucceeded => FullyCleaned(wine_data')]_vars

\* the dataset lacks one of the columns country, points, price
LacksColumn(cols) == ~({"country", "points", "price"} \subseteq cols)

\* C4 as stated: a dataset that loads but lacks an expected column makes every
\* entry point raise, load_data included.
C4_SchemaMismatchFatalEverywhere ==
  [][/\ (LoadDataCall /\ readable(csv_file) /\ LacksColumn(csv_file.cols)) =>
          exc' = "KeyError" /\ pc' = "raised"
     /\ (AnalyzeWineReviews /\ ~wine_reviews'.isNone /\ LacksColumn(wine_reviews'.cols)) =>
          exc' = "KeyError" /\ pc' = "raised"
     /\ (ExploreDatasets /\ explored'.reviews = "frame" /\ LacksColumn(wine_reviews'.cols)) =>
          exc' = "KeyError" /\ pc' = "raised"]_vars

\* C4 amended: a dataset that loads but lacks an expected column makes
\* analyze_wine_reviews and explore_datasets raise; load_data catches the
\* error and reports it as a failed load, returning False.
C4_SchemaMismatchFatalInProcessor ==
  [][/\ (LoadData /\ readable(csv_file) /\ LacksColumn(csv_file.cols)) =>
          exc' = NoExc /\ ret' = RetBool(FALSE) /\ pc' = "start"
     /\ (RunCompleteAnalysis /\ readable(csv_file) /\ LacksColumn(csv_file.cols)) =>
          exc' = NoExc /\ loaded' = "False" /\ pc' = "done"
     /\ (AnalyzeWineReviews /\ ~wine_reviews'.isNone /\ LacksColumn(wine_reviews'.cols)) =>
          exc' = "KeyError" /\ pc' = "raised"
     /\ (ExploreDatasets /\ explored'.reviews = "frame" /\ LacksColumn(wine_reviews'.cols)) =>
          exc' = "KeyError" /\ pc' = "raised"]_vars

C4_Witness ==
  /\ last = "load_data" /\ csv_file.status = "ok" /\ LacksColumn(csv_file.cols)
  /\ ret = RetBool(FALSE) /\ exc = NoExc

(***************************************************************************)
(* Quartiles by rank, for the properties of clean_data                     *)
(***************************************************************************)
\* the k-th smallest of the numbers xs: fewer than k are below it, at least k
\* are not above it
Ranked(xs, k) ==
  CHOOSE v \in {xs[i] : i \in 1..Len(xs)} :
    /\ Cardinality({i \in 1..Len(xs) : xs[i] < v}) < k
    /\ Cardinality({i \in 1..Len(xs) : xs[i] <= v}) >= k

\* 4 times the q/4 quantile of xs under linear interpolation: position
\* (n - 1) * q / 4 between the order statistics around it
Quartile(xs, q) ==
  LET h  == (Len(xs) - 1) * q
      j  == h \div 4
      g  == h % 4
  IN IF g = 0 THEN 4 * Ranked(xs, j + 1)
     ELSE (4 - g) * Ranked(xs, j + 1) + g * Ranked(xs, j + 2)

DroppedPrices == Column(cd.dropped, "price")
\* the inclusive fences Q1 - 1.5 * IQR and Q3 + 1.5 * IQR, times 8
LowerFence(Q1, Q3) == 2 * Q1 - 3 * (Q3 - Q1)
UpperFence(Q1, Q3) == 2 * Q3 + 3 * (Q3 - Q1)

\* the rows of a cleaned frame without their category cells
Uncategorized(rows) ==
  [i \in 1..Len(rows) |-> [rows[i] EXCEPT !.price_category = NoLabel,
                                          !.rating_category = NoLabel]]

\* C5: clean_data keeps a row exactly when Q1 - 1.5*IQR <= price <= Q3 + 1.5*IQR,
\* both ends included, Q1 and Q3 being the linear-interpolation quartiles of the
\* price column as it is after the null rows are dropped.
C5_OutlierFences ==
  /\ (cd.ran /\ cd.dropped = <<>>) => wine_data.rows = <<>>
  /\ (cd.ran /\ cd.dropped # <<>>) =>
       LET Q1 == Quartile(DroppedPrices, 1)
           Q3 == Quartile(DroppedPrices, 3)
           lo == LowerFence(Q1, Q3)
           hi == UpperFence(Q1, Q3)
       IN Uncategorized(wine_data.rows) =
            SelectSeq(cd.dropped, LAMBDA r : lo <= 8 * r.price /\ 8 * r.price <= hi)

\* an outlier was removed and other rows were kept
C5_Witness ==
  /\ cd.ran
  /\ wine_data.rows # <<>>
  /\ Len(wine_data.rows) < Len(cd.dropped)
  /\ LET Q1 == Quartile(DroppedPrices, 1)
         Q3 == Quartile(DroppedPrices, 3)
     IN \E i \in 1..Len(cd.dropped) : 8 * cd.dropped[i].price > UpperFence(Q1, Q3)

\* the rows of a sequence whose price is p
PriceCount(rows, p) == Cardinality({i \in 1..Len(rows) : rows[i].price = p})

\* C6: clean_data removes no row whose price lies in [Q1, Q3], and a non-empty
\* null-free column never cleans to an empty frame.
C6_InterquartileRowsKept ==
  (cd.ran /\ cd.dropped # <<>>) =>
    LET Q1 == Quartile(DroppedPrices, 1)
        Q3 == Quartile(DroppedPrices, 3)
    IN /\ \A p \in {DroppedPrices[i] : i \in 1..Len(DroppedPrices)} :
            (Q1 <= 4 * p /\ 4 * p <= Q3) =>
              PriceCount(wine_data.rows, p) = PriceCount(cd.dropped, p)
       /\ wine_data.rows # <<>>

\* a row strictly between the quartiles was kept while another row was removed
C6_Witness ==
  /\ cd.ran
  /\ Len(wine_data.rows) < Len(cd.dropped)
  /\ LET Q1 == Quartile(DroppedPrices, 1)
         Q3 == Quartile(DroppedPrices, 3)
     IN \E i \in 1..Len(wine_data.rows) :
          Q1 < 4 * wine_data.rows[i].price /\ 4 * wine_data.rows[i].price < Q3

(***************************************************************************)
(* Properties of the bins and of the grouped counts                        *)
(***************************************************************************)
CleanedRows == {wine_data.rows[i] : i \in 1..Len(wine_data.rows)}

Labels(labels) == {labels[i] : i \in 1..Len(labels)}

\* C8: after clean_data every remaining row carries one price_category and
\* one rating_category label, a price of 0, points of 0 and points above 100
\* included.
C8_EveryRowLabelled ==
  cd.ran =>
    \A r \in CleanedRows :
      /\ r.price_category \in Labels(price_labels)
      /\ r.rating_category \in Labels(rating_labels)

\* the step has run to its end
Finished(name) ==
  \E i \in 1..Len(steps) : steps[i] = name /\ (i < Len(steps) \/ pc # "raised")

NoNullCategory == \A r \in CleanedRows : r.price_category # NoLabel

\* C9: when no row lacks its price category, the per-category counts of
\* analyze_price_quality_relationship and those of the price distribution of
\* identify_purchase_trends each sum to the number of rows of wine_data.
C9_GroupCountsSumToRows ==
  NoNullCategory =>
    /\ Finished("analyze_price_quality_relationship") =>
         SumSeq([i \in 1..Len(price_labels) |-> out.price_analysis[price_labels[i]].count])
           = Len(wine_data.rows)
    /\ Finished("identify_purchase_trends") =>
         SumSeq([i \in 1..Len(price_labels) |->
                   out.trends_data.price_distribution[price_labels[i]]])
           = Len(wine_data.rows)

\* both reports are out over rows of the same price in more than one category
C9_Witness ==
  /\ NoNullCategory
  /\ Finished("analyze_price_quality_relationship")
  /\ Finished("identify_purchase_trends")
  /\ Cardinality({r.price_category : r \in CleanedRows}) >= 2
  /\ Cardinality(CleanedRows) < Len(wine_data.rows)

CountryCounts == value_counts(wine_data.rows, "country")
Correlated == {out.trends_data.country_correlations[i].country :
                 i \in 1..Len(out.trends_data.country_correlations)}
\* c is among the 10 most frequent countries however ties are broken
AmongTop(c) ==
  Cardinality({d \in DOMAIN CountryCounts : d # c /\ CountryCounts[d] >= CountryCounts[c]})
    < top_countries_n

\* C10: of the 10 most frequent countries, those with at least 50 cleaned rows
\* (exactly 50 included) are in country_correlations, and no country with
\* fewer than 50 rows is.
C10_GuardAtFifty ==
  Finished("identify_purchase_trends") =>
    \A c \in DOMAIN CountryCounts :
      /\ (AmongTop(c) /\ CountryCounts[c] >= 50) => c \in Correlated
      /\ CountryCounts[c] < 50 => c \notin Correlated

(***************************************************************************)
(* Properties of the value-score ranking and of degenerate inputs          *)
(***************************************************************************)
BestPremium == out.trends_data.best_premium
\* the cleaned rows of 90 points or more whose price is not 0
PricedPremium == {i \in 1..Len(wine_data.rows) :
                    wine_data.rows[i].points >= 90 /\ wine_data.rows[i].price # 0}

\* C11: the ranking by value_score = points / price holds no row whose price
\* is 0: such rows are left out before the top 10 are taken, so the ranking
\* is as long as the priced premium rows allow, up to 10.
C11_NoZeroPriceRanked ==
  Finished("identify_purchase_trends") =>
    /\ \A i \in 1..Len(BestPremium) : BestPremium[i].price # 0
    /\ Len(BestPremium) = Min(10, Cardinality(PricedPremium))

\* a mean or an extreme taken over no cell is nan
Defined(m) == m.n > 0
AnalysisDefined(a) ==
  /\ Defined(a.avg_points) /\ Defined(a.avg_price)
  /\ a.price_range[1] # NaN /\ a.price_range[2] # NaN

\* C12: no degenerate input reaches a report as nan, inf or a division error.
\* The analysis analyze_wine_reviews returns and explore_datasets prints has
\* defined means and price range even with no Brazilian row;
\* identify_purchase_trends raises no ZeroDivisionError on an empty cleaned
\* dataset; the average price per litre and the growth rates of the executive
\* summary are finite even when a volume is 0.
C12_DegenerateInputGuarded ==
  /\ (last = "analyze_wine_reviews" /\ ret.kind = "value") => AnalysisDefined(ret.val)
  /\ explored.printed.kind = "value" => AnalysisDefined(explored.printed.val)
  /\ exc # "ZeroDivisionError"
  /\ (last = "generate_executive_summary" /\ pc = "done") =>
       /\ summary.avg_price_per_liter.kind = "finite"
       /\ summary.growth_rate_volume.kind = "finite"
       /\ summary.growth_rate_value.kind = "finite"

(***************************************************************************)
(* Properties of the null-dropping step                                    *)
(***************************************************************************)
Complete(r) == r.points # NaN /\ r.price # NaN
RowSet(rows) == {rows[i] : i \in 1..Len(rows)}
RowCount(rows, r) == Cardinality({i \in 1..Len(rows) : rows[i] = r})

\* C13: the null-dropping step of clean_data removes a row exactly when it
\* lacks points or price.  Of the rows read from the file, none that is left
\* lacks either value, every row with both values is left as many times as
\* the file holds it, and no row is left that the file does not hold.
C13_DropsExactlyIncompleteRows ==
  [][LoadDataSucceeded =>
       /\ \A r \in RowSet(cd'.dropped) : Complete(r)
       /\ \A r \in RowSet(csv_file.rows) :
            Complete(r) => RowCount(cd'.dropped, r) = RowCount(csv_file.rows, r)
       /\ \A r \in RowSet(cd'.dropped) : r \in RowSet(csv_file.rows)]_vars

\* a load dropped some rows of the file for a missing value and left others
C13_Witness ==
  /\ cd.ran /\ csv_file.status = "ok"
  /\ cd.dropped # <<>>
  /\ Len(cd.dropped) < Len(csv_file.rows)
  /\ \E i \in 1..Len(csv_file.rows) : csv_file.rows[i].price = NaN
  /\ \E i, j \in 1..Len(cd.dropped) : i # j /\ cd.dropped[i] = cd.dropped[j]

(***************************************************************************)
(* Properties of DataProcessor.analyze_wine_reviews                        *)
(***************************************************************************)
\* the rows of the held reviews whose country is Brazil, and those of them
\* that carry a value in column col
BrazilRows == {i \in 1..Len(wine_reviews.rows) : wine_reviews.rows[i].country = "Brazil"}
BrazilCells(col) == {i \in BrazilRows : wine_reviews.rows[i][col] # NaN}

\* the sum of column col over the rows I of the held reviews
RECURSIVE Total(_, _)
Total(I, col) ==
  IF I = {} THEN 0
  ELSE LET i == CHOOSE j \in I : TRUE
       IN wine_reviews.rows[i][col] + Total(I \ {i}, col)

\* x is the least (greatest) price of the Brazilian rows, nan when none has one
LeastPrice(x) ==
  IF BrazilCells("price") = {} THEN x = NaN
  ELSE /\ \E i \in BrazilCells("price") : wine_reviews.rows[i].price = x
       /\ \A i \in BrazilCells("price") : wine_reviews.rows[i].price >= x
GreatestPrice(x) ==
  IF BrazilCells("price") = {} THEN x = NaN
  ELSE /\ \E i \in BrazilCells("price") : wine_reviews.rows[i].price = x
       /\ \A i \in BrazilCells("price") : wine_reviews.rows[i].price <= x

\* C14: analyze_wine_reviews aggregates the rows whose country is 'Brazil'
\* and no other: total_reviews is their number, avg_points and avg_price are
\* the sums of their points and prices over the number of values summed (a
\* missing cell is not a value), price_range is their least and greatest
\* price.  Brazilian rows (88, 20) and (92, 45) give mean points 90.0, mean
\* price 32.5 and count 2, whatever rows of other countries the file holds.
C14_BrazilAggregation ==
  (last = "analyze_wine_reviews" /\ ret.kind = "value") =>
    /\ ret.val.total_reviews = Cardinality(BrazilRows)
    /\ ret.val.avg_points = [sum |-> Total(BrazilCells("points"), "points"),
                             n |-> Cardinality(BrazilCells("points"))]
    /\ ret.val.avg_price = [sum |-> Total(BrazilCells("price"), "price"),
                            n |-> Cardinality(BrazilCells("price"))]
    /\ LeastPrice(ret.val.price_range[1])
    /\ GreatestPrice(ret.val.price_range[2])
    /\ {<<wine_reviews.rows[i].points, wine_reviews.rows[i].price>> : i \in BrazilRows}
          = {<<88, 20>>, <<92, 45>>} /\ Cardinality(BrazilRows) = 2 =>
         /\ ret.val.total_reviews = 2
         /\ ret.val.avg_points.sum = 90 * ret.val.avg_points.n
         /\ 2 * ret.val.avg_price.sum = 65 * ret.val.avg_price.n

\* the two Brazilian wines of the scenario were analysed among rows of
\* another country
C14_Witness ==
  /\ last = "analyze_wine_reviews" /\ ret.kind = "value"
  /\ \E i \in 1..Len(wine_reviews.rows) : wine_reviews.rows[i].country # "Brazil"
  /\ ret.val.total_reviews = 2
  /\ ret.val.avg_points = [sum |-> 180, n |-> 2]
  /\ ret.val.avg_price = [sum |-> 65, n |-> 2]
  /\ ret.val.price_range = <<20, 45>>

(***************************************************************************)
(* Properties of the mock tables                                           *)
(***************************************************************************)
Generated == ~export_analyzer.export_data.isNone
Destinations == {countries[i] : i \in 1..Len(countries)}

\* the table holds one row for every year from 2009 to 2023 and no other row
OneRowPerYear(rows) ==
  /\ Len(rows) = 15
  /\ \A y \in 2009..2023 : Cardinality({i \in 1..Len(rows) : rows[i].ano = y}) = 1

\* C15: after generate_mock_data, export_data holds one row for every pair of
\* a year from 2009 to 2023 and one of the 10 destination countries, 150 rows
\* with no pair missing or repeated; climate_data, demographic_data,
\* economic_data and wine_ratings hold one row per year; the join of
\* create_correlation_analysis then holds one row per year, 15 rows with the
\* years ascending.
C15_OneRowPerPair ==
  /\ Generated =>
       LET rows == export_analyzer.export_data.rows
       IN /\ Len(rows) = 150
          /\ Cardinality(Destinations) = 10
          /\ \A y \in 2009..2023, c \in Destinations :
               Cardinality({i \in 1..Len(rows) :
                              rows[i].ano = y /\ rows[i].pais_destino = c}) = 1
          /\ OneRowPerYear(export_analyzer.climate_data.rows)
          /\ OneRowPerYear(export_analyzer.demographic_data.rows)
          /\ OneRowPerYear(export_analyzer.economic_data.rows)
          /\ OneRowPerYear(export_analyzer.wine_ratings.rows)
  /\ (script = "export" /\ pc \in {"projections", "summary", "done"}) =>
       /\ Len(analysis_data) = 15
       /\ \A i \in 1..Len(analysis_data) : analysis_data[i].ano = 2008 + i

\* the tables were generated and joined
C15_Witness ==
  /\ Generated /\ last = "create_correlation_analysis"
  /\ Len(export_analyzer.export_data.rows) = 150
  /\ Len(analysis_data) = 15
  /\ analysis_data[1].ano = 2009 /\ analysis_data[15].ano = 2023
  /\ \E i \in 1..Len(analysis_data) : analysis_data[i].volume_litros > 0

CountryAnalysis == out.country_analysis
VarietyAnalysis == out.variety_analysis
VarietyCounts == value_counts(wine_data.rows, "variety")

\* fewer than 15 keys are more frequent than k: k can be among the 15 kept
InHead(counts, k) ==
  Cardinality({d \in DOMAIN counts : counts[d] > counts[k]}) < 15

\* m is 100 times the mean of column col over the rows whose column by is k,
\* rounded to a whole number
IsMean(m, by, k, col) ==
  LET g == SelectSeq(wine_data.rows, LAMBDA r : r[by] = k)
  IN 2 * Abs(100 * SumSeq(Column(g, col)) - m * Len(g)) <= Len(g)

\* C17: analyze_regional_preferences returns the 15 most frequent countries
\* (all of them when there are fewer) in descending order of mean points, and
\* the Brazil rank is Brazil's position in that order counted from 1;
\* analyze_variety_trends returns the 15 most frequent varieties in ascending
\* order of cost-benefit, so its first 10 rows are the 10 smallest ratios.
C17_ExplicitOrdering ==
  /\ Finished("analyze_regional_preferences") =>
       /\ Len(CountryAnalysis) = Min(15, Cardinality(DOMAIN CountryCounts))
       /\ \A i \in 1..Len(CountryAnalysis) :
            /\ CountryAnalysis[i].key \in DOMAIN CountryCounts
            /\ InHead(CountryCounts, CountryAnalysis[i].key)
            /\ IsMean(CountryAnalysis[i].points_mean, "country",
                      CountryAnalysis[i].key, "points")
       /\ \A i, j \in 1..Len(CountryAnalysis) :
            /\ i < j => CountryAnalysis[i].points_mean >= CountryAnalysis[j].points_mean
            /\ i # j => CountryAnalysis[i].key # CountryAnalysis[j].key
       /\ IF \E i \in 1..Len(CountryAnalysis) : CountryAnalysis[i].key = "Brazil"
          THEN /\ out.brazil_rank \in 1..Len(CountryAnalysis)
               /\ CountryAnalysis[out.brazil_rank].key = "Brazil"
               /\ out.brazil_rank =
                    1 + Cardinality({i \in 1..Len(CountryAnalysis) :
                                       \E j \in (i + 1)..Len(CountryAnalysis) :
                                         CountryAnalysis[j].key = "Brazil"})
          ELSE out.brazil_rank = 0
  /\ Finished("analyze_variety_trends") =>
       /\ Len(VarietyAnalysis) = Min(15, Cardinality(DOMAIN VarietyCounts))
       /\ \A i \in 1..Len(VarietyAnalysis) :
            /\ VarietyAnalysis[i].key \in DOMAIN VarietyCounts
            /\ InHead(VarietyCounts, VarietyAnalysis[i].key)
       /\ \A i, j \in 1..Len(VarietyAnalysis) :
            /\ (i < j /\ VarietyAnalysis[j].cost_benefit # NaN) =>
                 /\ VarietyAnalysis[i].cost_benefit # NaN
                 /\ VarietyAnalysis[i].cost_benefit <= VarietyAnalysis[j].cost_benefit
            /\ i # j => VarietyAnalysis[i].key # VarietyAnalysis[j].key

\* more than 15 countries and varieties were ranked and Brazil is not first
C17_Witness ==
  /\ Finished("analyze_regional_preferences") /\ Finished("analyze_variety_trends")
  /\ Cardinality(DOMAIN CountryCounts) > 15 /\ Len(CountryAnalysis) = 15
  /\ Cardinality(DOMAIN VarietyCounts) > 15 /\ Len(VarietyAnalysis) = 15
  /\ out.brazil_rank > 1
  /\ VarietyAnalysis[1].cost_benefit < VarietyAnalysis[15].cost_benefit

(***************************************************************************)
(* Frame properties of the DataProcessor                                   *)
(***************************************************************************)
\* the analysis is one analyze_wine_reviews can return over the frame df
AnalysisOf(df, a) ==
  \E top \in head(value_counts(brazil(df.rows), "variety"), 10) :
    a = analysis(df.rows, top)

\* C18: a load that fails returns None and leaves wine_reviews and
\* embrapa_data as they were, None or the record set loaded before; an
\* analyze_wine_reviews on a processor that holds reviews keeps them and
\* analyses them, whatever the file now is; loading one dataset leaves the
\* field of the other alone.
C18_FailedLoadKeepsData ==
  [][/\ (LoadWineReviews /\ ~readable(csv_file)) =>
          ret' = RetNone /\ wine_reviews' = wine_reviews /\ embrapa_data' = embrapa_data
     /\ (LoadEmbrapaData /\ ~readable(xlsx_file)) =>
          ret' = RetNone /\ embrapa_data' = embrapa_data /\ wine_reviews' = wine_reviews
     /\ LoadWineReviews => embrapa_data' = embrapa_data
     /\ LoadEmbrapaData => wine_reviews' = wine_reviews
     /\ AnalyzeWineReviews =>
          /\ embrapa_data' = embrapa_data
          /\ ~wine_reviews.isNone =>
               /\ wine_reviews' = wine_reviews
               /\ ret'.kind = "value" => AnalysisOf(wine_reviews, ret'.val)
          /\ (wine_reviews.isNone /\ ~readable(csv_file)) =>
               wine_reviews' = None /\ ret' = RetNone]_vars

\* a load failed on a processor that held reviews, and they are still held
C18_Witness ==
  /\ last = "load_wine_reviews" /\ ret = RetNone /\ csv_file.status = "missing"
  /\ ~wine_reviews.isNone /\ wine_reviews.rows # <<>>
  /\ ~embrapa_data.isNone

====
